---------------------------- MODULE Spec2Model ----------------------------
(***************************************************************************)
(* Model of src/ESP32_Reader/DexcomG6.ino: the authentication handshake,   *)
(* the bonding request, the five telemetry queries and the disconnect of   *)
(* a Dexcom transmitter session.                                           *)
(*                                                                         *)
(* One thread of control runs the functions of the file.  It blocks in     *)
(* AuthWaitToReceiveValue / ControlWaitToReceiveValue until the transport  *)
(* delivers a message, and in the two busy-wait loops until a callback of  *)
(* the transport flips a flag.  Everything a function does between two     *)
(* such blocking points is one step of the model.                          *)
(*                                                                         *)
(* Bytes are the integers 0..255; a std::string is a sequence of bytes,    *)
(* index i of the C++ string being index i+1 of the sequence.              *)
(***************************************************************************)
EXTENDS Integers, Sequences, FiniteSets, TLC

VARIABLES
    transmitterID,    \* the configured transmitter id, 6 bytes, never written
    charSigned,       \* whether plain char is signed in the build
    bonding,          \* global flag: the transmitter wants to bond
    bondingFinished,  \* global flag set by the security callback
    connected,        \* global flag cleared by the disconnect callback
    pc,               \* where the thread of control is
    cur,              \* the function running, or the one that returned last
    ret,              \* its return value: "none" while running
    log,              \* the sends and awaits of that function, in order
    out,              \* the decoded fields that function printed, in order
    authenticated,    \* authenticate() has returned true in this session
    queryFailed,      \* a telemetry query has returned false in this session
    twin              \* a second run of authenticate() from the same state,
                      \* whose messages differ only in the token bytes

vars == <<transmitterID, charSigned, bonding, bondingFinished, connected,
          pc, cur, ret, log, out, authenticated, queryFailed, twin>>

flags == <<bonding, bondingFinished, connected>>

build == <<transmitterID, charSigned>>

-----------------------------------------------------------------------------
(* Bounds of the model.                                                    *)

\* Number of payload fill patterns the received messages are drawn from.
NumFill == 2

-----------------------------------------------------------------------------
(* Bytes and strings.                                                      *)

Min(a, b) == IF a < b THEN a ELSE b

\* The value of s[i] (a plain char) after integer promotion.
Char(b) == IF charSigned /\ b >= 128 THEN b - 256 ELSE b

\* Payload byte i of fill pattern p: patterns differ in every position and
\* reach bytes on both sides of 0x80.
FillByte(p, i) == (p * 89 + i * (40 + p)) % 256

\* A message of the given length: the given leading bytes, then fill.
Message(len, head, p) ==
    [i \in 1..len |-> IF i <= Len(head) THEN head[i] ELSE FillByte(p, i)]

TelemetryFns ==
    {"readTimeMessage", "readBatteryStatus", "readGlucose", "readSensor",
     "readLastCalibration"}

Fns == {"authenticate", "requestBond", "sendDisconnect"} \cup TelemetryFns

-----------------------------------------------------------------------------
(* The transport, as the file uses it.                                     *)

Sent(ch, frame) == [kind |-> "send", ch |-> ch, data |-> frame]
Awaited(ch, msg) == [kind |-> "await", ch |-> ch, data |-> msg]

AuthSendValue(l, frame) == Append(l, Sent("auth", frame))
ControlSendValue(l, frame) == Append(l, Sent("control", frame))
AuthWaitToReceiveValue(l, msg) == Append(l, Awaited("auth", msg))
ControlWaitToReceiveValue(l, msg) == Append(l, Awaited("control", msg))


-----------------------------------------------------------------------------
(* What the transport can deliver.                                         *)

\* The identities a session may be configured with: one whose first byte is
\* the number 8, and the strings "812345" and "412345".
TransmitterIDs ==
    { <<8, 49, 50, 51, 52, 53>>,
      <<56, 49, 50, 51, 52, 53>>,
      <<52, 49, 50, 51, 52, 53>> }

\* First await of the handshake: right and wrong lengths and opcodes; the
\* token bytes (1..8) and the challenge bytes (9..16) vary independently.
AuthChallengeInputs ==
    { Message(len, <<op>> \o [i \in 1..8 |-> FillByte(q, i + 1)], p) :
        len \in {0, 16, 17, 18}, op \in {3, 5, 131},
        q \in 1..NumFill, p \in 1..NumFill }

\* Second await of the handshake.
AuthStatusInputs ==
    { Message(len, <<op, st, bf>>, 1) :
        len \in {0, 2, 3, 4}, op \in {5, 3}, st \in {0, 1, 2},
        bf \in {0, 1, 2, 129} }

\* Await of a telemetry query: every valid length, its neighbours, and every
\* response opcode of the frame table plus one that is none of them.
\* Known responses: glucose readings with the packed field 0x1234 and trend
\* byte 0xFF, and with the packed field 120 and trend 3, for both families; a
\* sensor reading with the raw counts 10000 and 20000.
KnownVectors ==
    { <<op, 0, 1, 0, 0, 0, 16, 39, 0, 0, 52, 18, 6, 255, 0, 0>> : op \in {49, 79} }
    \cup
    { <<op, 0, 2, 0, 0, 0, 16, 39, 0, 0, 120, 0, 6, 3, 0, 0>> : op \in {49, 79} }
    \cup
    { <<47, 0, 16, 39, 0, 0, 16, 39, 0, 0, 32, 78, 0, 0, 0, 0>> }

ControlInputs ==
    { Message(len, <<op>>, p) :
        len \in {0, 8, 10, 12, 15, 16, 17, 19, 20, 21},
        op \in {37, 35, 49, 79, 47, 51, 165},
        p \in 1..NumFill }
    \cup KnownVectors

-----------------------------------------------------------------------------
(* encrypt and calculateHash.                                              *)

\* Stand-in for the AES block encipherment of mbedtls: a fixed function of
\* the 16-byte key and the 16-byte block that depends on every byte of both.
mbedtls_aes_crypt_ecb(key, block) ==
    [i \in 1..16 |->
        (block[i] * 5 + block[(i % 16) + 1] + key[i] * 3 + key[((i + 6) % 16) + 1] + i) % 256]

encrypt(buffer, id) ==
    LET key == <<48, 48>> \o id \o <<48, 48>> \o id
    IN  mbedtls_aes_crypt_ecb(key, buffer)

\* calculateHash returns NULL for a string of another length than 8; the
\* std::string built from it is undefined, see authenticate_recvChallenge.
calculateHashDefined(data) == Len(data) = 8

calculateHash(data, id) == SubSeq(encrypt(data \o data, id), 1, 8)

-----------------------------------------------------------------------------
(* authenticate                                                            *)

authRequestTxMessage == <<1, 25, 243, 137, 248, 183, 88, 65, 51, 2>>

\* Mutant: the opcode of the challenge response is not looked at.
authChallengeRejected_lengthOnly(m) == Len(m) # 17

\* Line 23: the challenge response is refused.
authChallengeRejected(m) == (Len(m) # 17) \/ (Char(m[1]) # 3)

\* Lines 28-36: the loop over i = 1 .. length-1.
tokenHash(m) == [j \in 1..Min(8, Len(m) - 1) |-> m[j + 1]]
\* Mutant: the challenge is taken from one byte too far.
challenge_offByOne(m) == [j \in 1..(Len(m) - 10) |-> m[j + 10]]

challenge(m) == [j \in 1..(Len(m) - 9) |-> m[j + 9]]

\* Mutant: the token is hashed in place of the challenge.
authChallengeTXMessage_hashesToken(m) ==
    <<4>> \o calculateHash(tokenHash(m), transmitterID)

\* Lines 41-43.
authChallengeTXMessage(m) == <<4>> \o calculateHash(challenge(m), transmitterID)

\* Line 48: the status response is accepted.
authStatusAccepted(m) == (Len(m) = 3) /\ (Char(m[2]) = 1)

\* Mutant: the bonding byte is read the wrong way round.
bondingOf_inverted(m) == Char(m[3]) = 1

\* Line 51.
bondingOf(m) == Char(m[3]) # 1

\* No second run is followed outside authenticate().
NoTwin == [pc |-> "idle", ret |-> "none", log |-> <<>>, bonding |-> FALSE]

\* The challenge responses that differ from m in the token bytes 1..8 only.
TokenVariants(m) ==
    { m2 \in AuthChallengeInputs :
        /\ Len(m2) = Len(m)
        /\ \A i \in 1..Len(m) : i \in 2..9 \/ m2[i] = m[i] }

Call(fn) ==
    /\ pc = "idle"
    /\ cur' = fn
    /\ out' = <<>>
    /\ IF fn = "authenticate" THEN TRUE ELSE twin' = NoTwin
    /\ UNCHANGED <<build, authenticated, queryFailed>>

Return(v) ==
    /\ pc' = "idle"
    /\ ret' = v

authenticate_call ==
    /\ Call("authenticate")
    /\ log' = AuthSendValue(<<>>, authRequestTxMessage)
    /\ pc' = "authChallengeWait"
    /\ ret' = "none"
    /\ twin' = [pc |-> pc', ret |-> ret', log |-> log', bonding |-> bonding]
    /\ UNCHANGED flags

\* Lines 22-47 for a run that has sent and awaited l and now receives m:
\* where it is afterwards, what it has returned, its sends and awaits.
afterChallenge(l, m) ==
    LET r == AuthWaitToReceiveValue(l, m) IN
    IF authChallengeRejected(m)
    THEN [pc |-> "idle", ret |-> "false", log |-> r]
    ELSE IF ~calculateHashDefined(challenge(m))
    THEN [pc |-> "undefined", ret |-> "none", log |-> r]
    ELSE [pc |-> "authStatusWait", ret |-> "none",
          log |-> AuthSendValue(r, authChallengeTXMessage(m))]

\* Lines 47-57 for a run whose bonding flag is b.
afterStatus(l, b, m) ==
    IF authStatusAccepted(m)
    THEN [pc |-> "idle", ret |-> "true",
          log |-> AuthWaitToReceiveValue(l, m), bonding |-> bondingOf(m)]
    ELSE [pc |-> "idle", ret |-> "false",
          log |-> AuthWaitToReceiveValue(l, m), bonding |-> b]

authenticate_recvChallenge ==
    /\ pc = "authChallengeWait"
    /\ \E m \in AuthChallengeInputs :
         /\ LET r == afterChallenge(log, m)
            IN  /\ log' = r.log
                /\ pc' = r.pc
                /\ ret' = r.ret
         /\ \E m2 \in TokenVariants(m) :
              LET r2 == afterChallenge(twin.log, m2)
              IN  twin' = [pc |-> r2.pc, ret |-> r2.ret, log |-> r2.log,
                           bonding |-> twin.bonding]
    /\ UNCHANGED <<build, flags, cur, out, authenticated, queryFailed>>

\* Mutant: a refused status response clears the bonding flag.
authenticate_recvStatus_clearsBonding ==
    /\ pc = "authStatusWait"
    /\ \E m \in AuthStatusInputs :
         /\ log' = AuthWaitToReceiveValue(log, m)
         /\ IF authStatusAccepted(m)
            THEN /\ bonding' = bondingOf(m)
                 /\ authenticated' = TRUE
                 /\ Return("true")
            ELSE /\ bonding' = FALSE
                 /\ UNCHANGED authenticated
                 /\ Return("false")
    /\ UNCHANGED <<build, bondingFinished, connected, cur, out, queryFailed,
                   twin>>

\* Mutant: a refused status response starts the handshake again.
authenticate_recvStatus_retries ==
    /\ pc = "authStatusWait"
    /\ \E m \in AuthStatusInputs :
         IF authStatusAccepted(m)
         THEN /\ log' = AuthWaitToReceiveValue(log, m)
              /\ bonding' = bondingOf(m)
              /\ authenticated' = TRUE
              /\ Return("true")
         ELSE /\ log' = AuthSendValue(AuthWaitToReceiveValue(log, m),
                                      authRequestTxMessage)
              /\ pc' = "authChallengeWait"
              /\ UNCHANGED <<bonding, authenticated, ret>>
    /\ UNCHANGED <<build, bondingFinished, connected, cur, out, queryFailed,
                   twin>>

authenticate_recvStatus ==
    /\ pc = "authStatusWait"
    /\ \E m \in AuthStatusInputs :
         /\ LET r == afterStatus(log, bonding, m)
            IN  /\ log' = r.log
                /\ bonding' = r.bonding
                /\ authenticated' = (authenticated \/ r.ret = "true")
                /\ Return(r.ret)
         /\ twin' = IF twin.pc = "authStatusWait"
                    THEN afterStatus(twin.log, twin.bonding, m)
                    ELSE twin
    /\ UNCHANGED <<build, bondingFinished, connected, cur, out, queryFailed>>

-----------------------------------------------------------------------------
(* requestBond                                                             *)

keepAliveTxMessage == <<6, 25>>
bondRequestTxMessage == <<7>>

\* Mutant: the wait for the bonding is skipped.
bondWaitOver_noWait == TRUE

\* Line 86: the busy wait is left.
bondWaitOver == bondingFinished

\* Mutant: the bond request is sent whatever the bonding flag says.
requestBond_call_always ==
    /\ Call("requestBond")
    /\ log' = AuthSendValue(AuthSendValue(<<>>, keepAliveTxMessage),
                            bondRequestTxMessage)
    /\ pc' = "bondWait"
    /\ ret' = "none"
    /\ UNCHANGED flags

requestBond_call ==
    /\ Call("requestBond")
    /\ IF bonding
       THEN /\ log' = AuthSendValue(AuthSendValue(<<>>, keepAliveTxMessage),
                                    bondRequestTxMessage)
            /\ pc' = "bondWait"
            /\ ret' = "none"
       ELSE /\ log' = <<>>
            /\ Return("true")
    /\ UNCHANGED flags

\* Mutant: the wait gives up and reports failure when the flag is not set.
requestBond_bonded_timeout ==
    /\ pc = "bondWait"
    /\ Return(IF bondingFinished THEN "true" ELSE "false")
    /\ UNCHANGED <<build, flags, cur, log, out, authenticated, queryFailed,
                   twin>>

requestBond_bonded ==
    /\ pc = "bondWait"
    /\ bondWaitOver
    /\ Return("true")
    /\ UNCHANGED <<build, flags, cur, log, out, authenticated, queryFailed,
                   twin>>

-----------------------------------------------------------------------------
(* sendDisconnect                                                          *)

disconnectTxMessage == <<9>>

\* Mutant: the wait for the disconnection is skipped.
disconnectWaitOver_noWait == TRUE

\* Line 271: the busy wait is left.
disconnectWaitOver == ~connected

sendDisconnect_call ==
    /\ Call("sendDisconnect")
    /\ log' = ControlSendValue(<<>>, disconnectTxMessage)
    /\ pc' = "disconnectWait"
    /\ ret' = "none"
    /\ UNCHANGED flags

sendDisconnect_disconnected ==
    /\ pc = "disconnectWait"
    /\ disconnectWaitOver
    /\ Return("true")
    /\ UNCHANGED <<build, flags, cur, log, out, authenticated, queryFailed,
                   twin>>

-----------------------------------------------------------------------------
(* The callbacks of the transport that flip the flags.                     *)

onAuthenticationComplete ==
    /\ ~bondingFinished
    /\ bondingFinished' = TRUE
    /\ UNCHANGED <<build, bonding, connected, pc, cur, ret, log, out,
                   authenticated, queryFailed, twin>>

onDisconnect ==
    /\ connected
    /\ connected' = FALSE
    /\ UNCHANGED <<build, bonding, bondingFinished, pc, cur, ret, log, out,
                   authenticated, queryFailed, twin>>

-----------------------------------------------------------------------------
(* Decoding of the telemetry responses.                                    *)
(* A uint32_t is kept as its two 16-bit halves [hi, lo].                   *)

\* m[k] of the C++ string m, promoted to int.
At(m, k) == Char(m[k + 1])

\* (uint8_t)m[k]
U8(m, k) == At(m, k) % 256

\* Mutant: the two bytes are taken most significant first.
U16_bigEndian(m, k) == (At(m, k) * 256 + At(m, k + 1)) % 65536

\* (uint16_t)(m[k] + m[k+1]*0x100)
U16(m, k) == (At(m, k) + At(m, k + 1) * 256) % 65536

\* (uint32_t)(m[k] + m[k+1]*0x100 + m[k+2]*0x10000 + m[k+3]*0x1000000),
\* the int sum wrapping to 32 bits.
U32(m, k) ==
    LET l == At(m, k) + At(m, k + 1) * 256
        h == At(m, k + 2) + At(m, k + 3) * 256
    IN  [lo |-> l % 65536, hi |-> (h + ((l - (l % 65536)) \div 65536)) % 65536]

\* u * 34 in uint32_t arithmetic.
TimesG6Scale(u) ==
    LET l == u.lo * 34
    IN  [lo |-> l % 65536, hi |-> (u.hi * 34 + (l \div 65536)) % 65536]

\* u / (60*60*24) and (u / (60*60)) % 24 for a uint32_t u.
Days(u) == (u.hi * 512 + (u.lo \div 128)) \div 675
Hours(u) == ((u.hi * 4096 + (u.lo \div 16)) \div 225) % 24

transmitterTimeTxMessage == <<36, 230, 100>>
batteryStatusTxMessage == <<34, 32, 4>>
glucoseTxMessageG5 == <<48, 83, 54>>
glucoseTxMessageG6 == <<78, 10, 169>>
sensorTxMessage == <<46, 172, 197>>
calibrationDataTxMessage == <<50, 17, 22>>

\* transmitterID[0] != 8
isG5 == Char(transmitterID[1]) # 8

\* Line 106.
timeRejected(m) == (Len(m) # 16) \/ (At(m, 0) # 37)

timeFields(m) ==
    << <<"Time - Status", U8(m, 1)>>,
       <<"Time - since activation", U32(m, 2)>>,
       <<"Time - days", Days(U32(m, 2))>>,
       <<"Time - hours", Hours(U32(m, 2))>>,
       <<"Time - since session start", U32(m, 6)>> >>

\* Lines 135-136.
batteryRejected(m) == ~(Len(m) = 10 \/ Len(m) = 12) \/ (At(m, 0) # 35)

\* Mutant: the 12-byte layout is decoded whatever the length.
batteryFields_alwaysLong(m) ==
    << <<"Battery - Status", U8(m, 1)>>,
       <<"Battery - Voltage A", U16(m, 2)>>,
       <<"Battery - Voltage B", U16(m, 4)>>,
       <<"Battery - Resistance", U16(m, 6)>>,
       <<"Battery - Runtime", U8(m, 8)>>,
       <<"Battery - Temperature", U8(m, 9)>> >>

batteryFields(m) ==
    << <<"Battery - Status", U8(m, 1)>>,
       <<"Battery - Voltage A", U16(m, 2)>>,
       <<"Battery - Voltage B", U16(m, 4)>> >>
    \o (IF Len(m) = 12
        THEN << <<"Battery - Resistance", U16(m, 6)>>,
                <<"Battery - Runtime", U8(m, 8)>>,
                <<"Battery - Temperature", U8(m, 9)>> >>
        ELSE IF Len(m) = 10
        THEN << <<"Battery - Runtime", U8(m, 6)>>,
                <<"Battery - Temperature", U8(m, 7)>> >>
        ELSE << >>)

\* Mutant: the response opcode of family A is expected whatever the family.
glucoseRejected_alwaysG5(m) == (Len(m) < 16) \/ (At(m, 0) # 49)

\* Line 169.
glucoseRejected(m) ==
    (Len(m) < 16) \/ (At(m, 0) # (IF isG5 THEN 49 ELSE 79))

glucoseFields(m) ==
    LET glucoseBytes == U16(m, 10)
    IN  << <<"Glucose - Status", U8(m, 1)>>,
           <<"Glucose - Sequence", U32(m, 2)>>,
           <<"Glucose - Timestamp", U32(m, 6)>>,
           <<"Glucose - DisplayOnly", (glucoseBytes \div 4096) > 0>>,
           <<"Glucose - Glucose", glucoseBytes % 4096>>,
           <<"Glucose - State", U8(m, 12)>>,
           <<"Glucose - Trend", At(m, 13)>> >>

\* Line 206.
sensorRejected(m) == (Len(m) # 16 /\ Len(m) # 8) \/ (At(m, 0) # 47)

sensorFields(m) ==
    << <<"Sensor - Status", U8(m, 1)>>,
       <<"Sensor - Timestamp", U32(m, 2)>> >>
    \o (IF Len(m) > 8
        THEN IF Char(transmitterID[1]) = 8
             THEN << <<"Sensor - Unfiltered", TimesG6Scale(U32(m, 6))>>,
                     <<"Sensor - Filtered", TimesG6Scale(U32(m, 10))>> >>
             ELSE << <<"Sensor - Unfiltered", U32(m, 6)>>,
                     <<"Sensor - Filtered", U32(m, 10)>> >>
        ELSE << >>)

\* Mutant: only the 19-byte calibration response is accepted.
calibrationRejected_only19(m) == (Len(m) # 19) \/ (At(m, 0) # 51)

\* Lines 247-248.
calibrationRejected(m) == (Len(m) # 19 /\ Len(m) # 20) \/ (At(m, 0) # 51)

calibrationFields(m) ==
    << <<"Calibration - Glucose", U16(m, 11)>>,
       <<"Calibration - Timestamp", U32(m, 13)>> >>

-----------------------------------------------------------------------------
(* The telemetry queries.                                                  *)

\* Mutant: the command is sent a second time before the response is awaited.
Query_sendsTwice(fn, frame) ==
    /\ Call(fn)
    /\ log' = ControlSendValue(ControlSendValue(<<>>, frame), frame)
    /\ pc' = "controlWait"
    /\ ret' = "none"
    /\ UNCHANGED flags

\* Send the command and block in ControlWaitToReceiveValue.
Query(fn, frame) ==
    /\ Call(fn)
    /\ log' = ControlSendValue(<<>>, frame)
    /\ pc' = "controlWait"
    /\ ret' = "none"
    /\ UNCHANGED flags

\* Mutant: a refused response ends the session.
Response_failureDisconnects(fn, m, rejected, fields) ==
    /\ pc = "controlWait"
    /\ cur = fn
    /\ IF rejected
       THEN /\ log' = ControlSendValue(ControlWaitToReceiveValue(log, m), <<9>>)
            /\ out' = <<>>
            /\ queryFailed' = TRUE
            /\ Return("false")
       ELSE /\ log' = ControlWaitToReceiveValue(log, m)
            /\ out' = fields
            /\ UNCHANGED queryFailed
            /\ Return("true")
    /\ UNCHANGED <<build, flags, cur, authenticated, twin>>

\* The response arrives; return false, or print the fields and return true.
Response(fn, m, rejected, fields) ==
    /\ pc = "controlWait"
    /\ cur = fn
    /\ log' = ControlWaitToReceiveValue(log, m)
    /\ IF rejected
       THEN /\ out' = <<>>
            /\ queryFailed' = TRUE
            /\ Return("false")
       ELSE /\ out' = fields
            /\ UNCHANGED queryFailed
            /\ Return("true")
    /\ UNCHANGED <<build, flags, cur, authenticated, twin>>

readTimeMessage_call == Query("readTimeMessage", transmitterTimeTxMessage)

readTimeMessage_recv ==
    \E m \in ControlInputs :
        Response("readTimeMessage", m, timeRejected(m), timeFields(m))

readBatteryStatus_call == Query("readBatteryStatus", batteryStatusTxMessage)

readBatteryStatus_recv ==
    \E m \in ControlInputs :
        Response("readBatteryStatus", m, batteryRejected(m), batteryFields(m))

readGlucose_call ==
    Query("readGlucose", IF isG5 THEN glucoseTxMessageG5 ELSE glucoseTxMessageG6)

readGlucose_recv ==
    \E m \in ControlInputs :
        Response("readGlucose", m, glucoseRejected(m), glucoseFields(m))

readSensor_call == Query("readSensor", sensorTxMessage)

readSensor_recv ==
    \E m \in ControlInputs :
        Response("readSensor", m, sensorRejected(m), sensorFields(m))

readLastCalibration_call ==
    Query("readLastCalibration", calibrationDataTxMessage)

readLastCalibration_recv ==
    \E m \in ControlInputs :
        Response("readLastCalibration", m, calibrationRejected(m),
                 calibrationFields(m))

-----------------------------------------------------------------------------
(* The specifications.                                                     *)

Init ==
    /\ transmitterID \in TransmitterIDs
    \* Plain char is unsigned: the brace-initialised strings of lines 18, 103,
    \* 162 and 203 hold bytes above 0x7F, which a signed char cannot take.
    /\ charSigned = FALSE
    /\ bonding \in BOOLEAN
    /\ bondingFinished = FALSE
    /\ connected = TRUE
    /\ pc = "idle"
    /\ cur = "none"
    /\ ret = "none"
    /\ log = <<>>
    /\ out = <<>>
    /\ authenticated = FALSE
    /\ queryFailed = FALSE
    /\ twin = NoTwin

\* The functions of the file, called in any order by one thread.
Next ==
    \/ authenticate_call
    \/ authenticate_recvChallenge
    \/ authenticate_recvStatus
    \/ requestBond_call
    \/ requestBond_bonded
    \/ readTimeMessage_call
    \/ readTimeMessage_recv
    \/ readBatteryStatus_call
    \/ readBatteryStatus_recv
    \/ readGlucose_call
    \/ readGlucose_recv
    \/ readSensor_call
    \/ readSensor_recv
    \/ readLastCalibration_call
    \/ readLastCalibration_recv
    \/ sendDisconnect_call
    \/ sendDisconnect_disconnected
    \/ onAuthenticationComplete
    \/ onDisconnect

Spec == Init /\ [][Next]_vars

-----------------------------------------------------------------------------
(* The session as section 4.6 and 7 of the specification sequence it:      *)
(* handshake, then bonding, then telemetry queries in any order, then the  *)
(* disconnect; a handshake that fails is not followed by anything.         *)

\* Mutant: the outcome of the handshake is not looked at.
SessionAllows_anyOutcome(fn) ==
    IF fn = "authenticate" THEN cur = "none" ELSE cur # "none"

SessionAllows(fn) ==
    CASE fn = "authenticate" -> cur = "none"
      [] fn = "requestBond" -> cur = "authenticate" /\ ret = "true"
      [] OTHER -> cur = "requestBond" \/ cur \in TelemetryFns

SessionNext ==
    \/ SessionAllows("authenticate") /\ authenticate_call
    \/ authenticate_recvChallenge
    \/ authenticate_recvStatus
    \/ SessionAllows("requestBond") /\ requestBond_call
    \/ requestBond_bonded
    \/ SessionAllows("readTimeMessage") /\ readTimeMessage_call
    \/ readTimeMessage_recv
    \/ SessionAllows("readBatteryStatus") /\ readBatteryStatus_call
    \/ readBatteryStatus_recv
    \/ SessionAllows("readGlucose") /\ readGlucose_call
    \/ readGlucose_recv
    \/ SessionAllows("readSensor") /\ readSensor_call
    \/ readSensor_recv
    \/ SessionAllows("readLastCalibration") /\ readLastCalibration_call
    \/ readLastCalibration_recv
    \/ SessionAllows("sendDisconnect") /\ sendDisconnect_call
    \/ sendDisconnect_disconnected
    \/ onAuthenticationComplete
    \/ onDisconnect

SessionSpec == Init /\ [][SessionNext]_vars

-----------------------------------------------------------------------------
(* The claims.                                                             *)

\* The message of the i-th event of the running (or last) function.
Data(i) == log[i].data

AuthReturned == cur = "authenticate" /\ pc = "idle"

\* C1: if the first message awaited by authenticate() has another length
\* than 17 or another first byte than 0x03, authenticate() returns false and
\* has done nothing but send the 0x01 request and await once: no further
\* frame on any channel, no second await.
C1_MalformedChallengeAborts ==
    (cur = "authenticate" /\ Len(log) >= 2
        /\ (Len(Data(2)) # 17 \/ Data(2)[1] # 3))
    => /\ pc = "idle"
       /\ ret = "false"
       /\ log = << Sent("auth", <<1, 25, 243, 137, 248, 183, 88, 65, 51, 2>>),
                   Awaited("auth", Data(2)) >>

\* A 17-byte challenge response with a wrong opcode has been refused.
C1_Witness ==
    /\ AuthReturned
    /\ ret = "false"
    /\ Len(log) = 2
    /\ Len(Data(2)) = 17
    /\ Data(2)[1] = 5

\* C2: authenticate() returns true exactly when the status response has
\* length 3, first byte 0x05 and second byte 1.
C2_StatusShapeDecides ==
    (AuthReturned /\ Len(log) = 4)
    => (ret = "true"
          <=> (Len(Data(4)) = 3 /\ Data(4)[1] = 5 /\ Data(4)[2] = 1))

\* C3: when authenticate() has returned true, bonding is (third byte of the
\* status response is not 1); {0x05,0x01,0x01} after a well-formed challenge
\* gives true with bonding false, another third byte gives bonding true.
C3_BondingFromThirdByte ==
    /\ (AuthReturned /\ ret = "true")
       => (Len(log) = 4 /\ Len(Data(4)) = 3 /\ bonding = (Data(4)[3] # 1))
    /\ (AuthReturned /\ Len(log) = 4 /\ Data(4) = <<5, 1, 1>>)
       => (ret = "true" /\ ~bonding)
    /\ (AuthReturned /\ Len(log) = 4 /\ Len(Data(4)) = 3
          /\ Data(4)[1] = 5 /\ Data(4)[2] = 1 /\ Data(4)[3] # 1)
       => (ret = "true" /\ bonding)

\* The end-to-end case: a 17-byte 0x03 challenge, then {0x05,0x01,0x01}.
C3_Witness ==
    /\ AuthReturned
    /\ ret = "true"
    /\ Len(log) = 4
    /\ Len(Data(2)) = 17
    /\ Data(2)[1] = 3
    /\ Data(4) = <<5, 1, 1>>
    /\ ~bonding

\* The telemetry command opcodes: time, battery, glucose (both families),
\* sensor, calibration.
IsTelemetryCommand(e) ==
    /\ e.kind = "send"
    /\ e.ch = "control"
    /\ e.data[1] \in {36, 34, 48, 78, 46, 50}

\* C4: in a session, no telemetry command frame is sent on the control
\* channel unless authenticate() has returned true before; after a handshake
\* that failed the session sends none.
C4_NoTelemetryBeforeAuthenticated ==
    \A i \in 1..Len(log) : IsTelemetryCommand(log[i]) => authenticated

\* A telemetry command has been sent in an authenticated session.
C4_Witness ==
    /\ authenticated
    /\ cur = "readGlucose"
    /\ Len(log) >= 1
    /\ IsTelemetryCommand(log[1])

\* C5: with the bonding flag false, requestBond() sends nothing, does not
\* wait, changes no flag and returns true.
C5_NoBondingIsNoOp ==
    [][(requestBond_call /\ ~bonding)
         => /\ log' = <<>>
            /\ pc' = "idle"
            /\ ret' = "true"
            /\ cur' = "requestBond"
            /\ UNCHANGED <<flags, build, authenticated, queryFailed>>]_vars

\* requestBond() has returned without bonding.
C5_Witness ==
    /\ cur = "requestBond"
    /\ pc = "idle"
    /\ ret = "true"
    /\ log = <<>>
    /\ ~bonding

\* C6: with the bonding flag true, requestBond() sends on the authentication
\* channel the keep-alive frame {0x06,0x19} and then the bond request {0x07},
\* once each, awaits nothing, and has returned (true) only where
\* bondingFinished is true.
C6_BondRequestSequence ==
    (cur = "requestBond" /\ bonding)
    => /\ log = << Sent("auth", <<6, 25>>), Sent("auth", <<7>>) >>
       /\ pc \in {"bondWait", "idle"}
       /\ pc = "bondWait" => ret = "none"
       /\ pc = "idle" => (ret = "true" /\ bondingFinished)

\* requestBond() has returned after the bonding finished.
C6_Witness ==
    /\ cur = "requestBond"
    /\ bonding
    /\ pc = "idle"
    /\ ret = "true"
    /\ Len(log) = 2
    /\ bondingFinished

\* C7: sendDisconnect() sends {0x09} on the control channel once, before it
\* waits, and has returned (true) only where connected is false.
C7_DisconnectSequence ==
    cur = "sendDisconnect"
    => /\ log = << Sent("control", <<9>>) >>
       /\ pc \in {"disconnectWait", "idle"}
       /\ pc = "disconnectWait" => ret = "none"
       /\ pc = "idle" => (ret = "true" /\ ~connected)

\* sendDisconnect() has returned.
C7_Witness ==
    /\ cur = "sendDisconnect"
    /\ pc = "idle"
    /\ ret = "true"
    /\ ~connected
    /\ Len(log) = 1

-----------------------------------------------------------------------------
(* The busy waits spin: once the flag is set the loop is left.             *)

LiveSpec ==
    /\ Spec
    /\ WF_vars(requestBond_bonded)
    /\ WF_vars(sendDisconnect_disconnected)

\* C8: the two waits have no timeout and no error path.  A wait is left only
\* with its flag set and only by returning true; while the flag is not set
\* the function stays in the wait; once the flag is set the function returns.
C8_WaitsCompleteOrHang ==
    /\ [][(pc = "bondWait" /\ pc' # "bondWait")
            => (bondingFinished /\ pc' = "idle" /\ ret' = "true")]_vars
    /\ [][(pc = "disconnectWait" /\ pc' # "disconnectWait")
            => (~connected /\ pc' = "idle" /\ ret' = "true")]_vars
    /\ (pc = "bondWait" /\ bondingFinished) ~> (pc = "idle" /\ ret = "true")
    /\ (pc = "disconnectWait" /\ ~connected) ~> (pc = "idle" /\ ret = "true")

\* requestBond() is in its wait and the signal has not come.
C8_Witness ==
    /\ pc = "bondWait"
    /\ cur = "requestBond"
    /\ ~bondingFinished

\* The response a telemetry function accepts, by the frame table.
ValidResponse(fn, d) ==
    CASE fn = "readTimeMessage" -> Len(d) = 16 /\ d[1] = 37
      [] fn = "readBatteryStatus" -> Len(d) \in {10, 12} /\ d[1] = 35
      [] fn = "readGlucose" ->
            Len(d) >= 16 /\ d[1] = (IF transmitterID[1] = 8 THEN 79 ELSE 49)
      [] fn = "readSensor" -> Len(d) \in {8, 16} /\ d[1] = 47
      [] fn = "readLastCalibration" -> Len(d) \in {19, 20} /\ d[1] = 51

QueryReturned == cur \in TelemetryFns /\ pc = "idle"

\* C9: a telemetry query returns true exactly when the response has a valid
\* length for that query and the expected first byte (for glucose, that of
\* the family); otherwise it returns false and prints no decoded field.
C9_ValidationDecides ==
    QueryReturned
    => /\ ret = "true" <=> ValidResponse(cur, Data(2))
       /\ ret \in {"true", "false"}
       /\ ret = "false" => out = <<>>
       /\ ret = "true" => out # <<>>

\* A 20-byte calibration response has been accepted.
C9_Witness ==
    /\ QueryReturned
    /\ cur = "readLastCalibration"
    /\ ret = "true"
    /\ Len(Data(2)) = 20

\* C10: a query whose response is refused returns false, leaves the flags
\* alone and sends nothing more; afterwards every telemetry query can be
\* called, and returns true when its response is valid.
C10_FailureIsLocal ==
    /\ [][(pc = "controlWait" /\ ret' = "false")
            => /\ pc' = "idle"
               /\ UNCHANGED <<flags, build, cur, authenticated>>
               /\ Len(log') = 2
               /\ log'[1] = log[1]
               /\ log'[2].kind = "await"]_vars
    /\ [](queryFailed /\ pc = "idle"
            => /\ ENABLED readTimeMessage_call
               /\ ENABLED readBatteryStatus_call
               /\ ENABLED readGlucose_call
               /\ ENABLED readSensor_call
               /\ ENABLED readLastCalibration_call)
    /\ [](queryFailed /\ QueryReturned /\ ValidResponse(cur, Data(2))
            => ret = "true")

\* A query has succeeded after another one failed in the same session.
C10_Witness ==
    /\ queryFailed
    /\ QueryReturned
    /\ ret = "true"
    /\ connected


-----------------------------------------------------------------------------
(* Dispatch, request/response discipline, shape of the handshake.          *)

FamilyB == transmitterID[1] = 8

\* C11: readGlucose() sends opcode 0x30 and accepts only response opcode 0x31
\* when the first identity byte is not 8, and sends 0x4e and accepts only
\* 0x4f when it is 8; a response with the other family's opcode is refused.
C11_GlucoseFamilyDispatch ==
    cur = "readGlucose"
    => /\ Len(log) >= 1
       /\ log[1].kind = "send"
       /\ log[1].ch = "control"
       /\ Data(1)[1] = (IF FamilyB THEN 78 ELSE 48)
       /\ (pc = "idle" /\ ret = "true")
            => Data(2)[1] = (IF FamilyB THEN 79 ELSE 49)
       /\ (pc = "idle" /\ Len(Data(2)) >= 1
              /\ Data(2)[1] = (IF FamilyB THEN 49 ELSE 79))
            => ret = "false"

\* A family-B session has had a 0x4f glucose response accepted.
C11_Witness ==
    /\ cur = "readGlucose"
    /\ pc = "idle"
    /\ FamilyB
    /\ Data(1)[1] = 78
    /\ ret = "true"
    /\ Data(2)[1] = 79

\* The frames that the frame table gives a response to.
ExpectsResponse(e) ==
    /\ e.kind = "send"
    /\ e.data[1] \in {1, 4, 36, 34, 48, 78, 46, 50}

\* The thread is blocked in the await of the channel.
AwaitingOn(ch) ==
    IF ch = "auth" THEN pc \in {"authChallengeWait", "authStatusWait"}
    ELSE pc = "controlWait"

\* C12: on each channel there is never more than one outstanding request: a
\* frame that expects a response is followed, before anything else is sent,
\* by the await of one response on its channel, and no function returns
\* with a request outstanding.
C12_OneOutstandingRequest ==
    \A i \in 1..Len(log) :
        ExpectsResponse(log[i])
        => IF i = Len(log)
           THEN AwaitingOn(log[i].ch)
           ELSE log[i + 1].kind = "await" /\ log[i + 1].ch = log[i].ch

\* The second request of the handshake is outstanding, the first answered.
C12_Witness ==
    /\ pc = "authStatusWait"
    /\ Len(log) = 3
    /\ ExpectsResponse(log[1])
    /\ log[2].kind = "await"
    /\ ExpectsResponse(log[3])

\* C13: every run of authenticate() is a prefix of: send the 10-byte 0x01
\* request, await, send the 0x04 response, await; each at most once, and it
\* has returned true or false after the first or the second await.
C13_HandshakeLinear ==
    cur = "authenticate"
    => /\ Len(log) \in 1..4
       /\ \A i \in 1..Len(log) :
             /\ log[i].ch = "auth"
             /\ log[i].kind = (IF i \in {1, 3} THEN "send" ELSE "await")
       /\ Len(Data(1)) = 10 /\ Data(1)[1] = 1
       /\ Len(log) >= 3 => Data(3)[1] = 4
       /\ pc = (CASE Len(log) = 1 -> "authChallengeWait"
                  [] Len(log) = 3 -> "authStatusWait"
                  [] OTHER -> "idle")
       /\ pc = "idle" <=> ret \in {"true", "false"}

\* A handshake has gone through both awaits and been refused.
C13_Witness ==
    /\ AuthReturned
    /\ Len(log) = 4
    /\ ret = "false"

-----------------------------------------------------------------------------
(* Decoded fields.                                                         *)

Labels == { out[i][1] : i \in 1..Len(out) }

\* The value printed under a label.
Field(label) == out[CHOOSE i \in 1..Len(out) : out[i][1] = label][2]

Accepted(fn) == cur = fn /\ pc = "idle" /\ ret = "true"

\* The unsigned little-endian value of bytes k..k+3 of the response, as its
\* 16-bit halves.
LittleEndian32(d, k) ==
    [lo |-> d[k + 1] + d[k + 2] * 256, hi |-> d[k + 3] + d[k + 4] * 256]

\* u times 34 as a number: the upper half is not cut to 16 bits.
Times34(u) ==
    [lo |-> (u.lo * 34) % 65536, hi |-> u.hi * 34 + ((u.lo * 34) \div 65536)]

\* C14: for an accepted battery response the resistance is decoded exactly
\* when the length is 12, runtime and temperature then being bytes 8 and 9;
\* for length 10 they are bytes 6 and 7.
C14_BatteryLayoutByLength ==
    Accepted("readBatteryStatus")
    => /\ Len(Data(2)) \in {10, 12}
       /\ "Battery - Resistance" \in Labels <=> Len(Data(2)) = 12
       /\ Len(Data(2)) = 12
            => /\ Field("Battery - Runtime") = Data(2)[9]
               /\ Field("Battery - Temperature") = Data(2)[10]
       /\ Len(Data(2)) = 10
            => /\ Field("Battery - Runtime") = Data(2)[7]
               /\ Field("Battery - Temperature") = Data(2)[8]

\* A 10-byte battery response has been decoded.
C14_Witness ==
    /\ Accepted("readBatteryStatus")
    /\ Len(Data(2)) = 10
    /\ Len(out) = 5

\* C15: for an accepted 16-byte sensor response the decoded unfiltered and
\* filtered values are the raw little-endian fields times 34 when the first
\* identity byte is 8 and the raw fields otherwise; an accepted 8-byte
\* response gives neither value.
C15_SensorScaling ==
    Accepted("readSensor")
    => /\ Len(Data(2)) = 16
            => /\ Field("Sensor - Unfiltered")
                    = (IF FamilyB THEN Times34(LittleEndian32(Data(2), 6))
                       ELSE LittleEndian32(Data(2), 6))
               /\ Field("Sensor - Filtered")
                    = (IF FamilyB THEN Times34(LittleEndian32(Data(2), 10))
                       ELSE LittleEndian32(Data(2), 10))
       /\ Len(Data(2)) = 8
            => Labels \cap {"Sensor - Unfiltered", "Sensor - Filtered"} = {}

\* C16: for an accepted glucose response, with v the 16-bit little-endian
\* value of bytes 10..11, the glucose is the low 12 bits of v and displayOnly
\* is true exactly when the high nibble of v is not zero.
C16_GlucosePacking ==
    Accepted("readGlucose")
    => LET v == Data(2)[11] + Data(2)[12] * 256
       IN  /\ Field("Glucose - Glucose") = v % 4096
           /\ Field("Glucose - DisplayOnly") = ((v \div 4096) # 0)

\* The packed field 0x1234 has been decoded: glucose 0x234, displayOnly.
C16_Witness ==
    /\ Accepted("readGlucose")
    /\ Data(2)[11] = 52
    /\ Data(2)[12] = 18
    /\ Field("Glucose - Glucose") = 564
    /\ Field("Glucose - DisplayOnly") = TRUE

\* C17: for an accepted glucose response the trend is byte 13 read as a
\* signed 8-bit value, and sequence and timestamp are the unsigned
\* little-endian values of their bytes.
C17_TrendSignedFieldsUnsigned ==
    Accepted("readGlucose")
    => LET b == Data(2)[14]
       IN  /\ Field("Glucose - Trend") = (IF b < 128 THEN b ELSE b - 256)
           /\ Field("Glucose - Sequence") = LittleEndian32(Data(2), 2)
           /\ Field("Glucose - Timestamp") = LittleEndian32(Data(2), 6)

-----------------------------------------------------------------------------
(* The hash step and the bonding flag.                                     *)

\* C19: when authenticate() computes the hash, the challenge it passes is
\* bytes 9..16 of the 17-byte message, 8 bytes long, so calculateHash never
\* takes its error branch, and the frame sent is the 9 bytes 0x04 followed
\* by the hash of that challenge.
C19_HashOfChallenge ==
    /\ pc # "undefined"
    /\ (cur = "authenticate" /\ Len(log) >= 3)
       => LET c == SubSeq(Data(2), 10, 17)
          IN  /\ Len(Data(2)) = 17
              /\ Len(c) = 8
              /\ log[3] = Sent("auth", <<4>> \o calculateHash(c, transmitterID))
              /\ Len(Data(3)) = 9

\* The response frame of the handshake has been sent.
C19_Witness ==
    /\ cur = "authenticate"
    /\ pc = "authStatusWait"
    /\ Len(log) = 3
    /\ Data(3)[1] = 4

\* C20: the bonding flag changes only in the step in which authenticate()
\* returns true; a failed handshake, requestBond(), the queries and
\* sendDisconnect() leave it as it was.
C20_BondingWrittenOnlyOnSuccess ==
    [][bonding' # bonding
         => /\ cur = "authenticate"
            /\ pc = "authStatusWait"
            /\ pc' = "idle"
            /\ ret' = "true"]_vars

\* A handshake has failed at the status response in a session in which no
\* handshake succeeded, and the flag still has its initial value true.
C20_Witness ==
    /\ AuthReturned
    /\ ret = "false"
    /\ Len(log) = 4
    /\ ~authenticated
    /\ bonding

-----------------------------------------------------------------------------
(* The token.                                                              *)

Frames(l) == SelectSeq(l, LAMBDA e : e.kind = "send")
Received(l) == SelectSeq(l, LAMBDA e : e.kind = "await")

\* The messages two runs received differ at most in bytes 1..8 of the first.
DifferOnlyInToken(l1, l2) ==
    /\ Len(Received(l1)) = Len(Received(l2))
    /\ \A i \in 1..Len(Received(l1)) :
         LET a == Received(l1)[i].data
             b == Received(l2)[i].data
         IN  /\ Len(a) = Len(b)
             /\ \A k \in 1..Len(a) : (i = 1 /\ k \in 2..9) \/ a[k] = b[k]

\* C18: the token is never verified: two runs of authenticate() from the
\* same state whose received messages differ only in the token bytes send
\* the same frames, are at the same point, return the same result and leave
\* the same bonding flag.
C18_TokenNeverVerified ==
    (cur = "authenticate" /\ DifferOnlyInToken(log, twin.log))
    => /\ Frames(twin.log) = Frames(log)
       /\ twin.pc = pc
       /\ twin.ret = ret
       /\ pc = "idle" => twin.bonding = bonding

\* Two runs with different tokens have both been authenticated.
C18_Witness ==
    /\ AuthReturned
    /\ ret = "true"
    /\ twin.ret = "true"
    /\ Len(twin.log) = 4
    /\ twin.log[2].data # Data(2)
    /\ SubSeq(twin.log[2].data, 10, 17) = SubSeq(Data(2), 10, 17)

=============================================================================
